---- MODULE Spec2Model ----
(***************************************************************************)
(* gattycord: the social media monitor of src/main.py.                     *)
(*                                                                         *)
(* One process run = module load (environment read), SocialMonitor()       *)
(* (load_cache) and run_all_checks(): check_youtube, check_instagram,       *)
(* save_cache, summary webhook.  The network (YouTube API, Instagram,      *)
(* the picuki mirror, Discord) is the environment: every response is a     *)
(* nondeterministic choice.  Between runs the sources may publish.         *)
(***************************************************************************)
EXTENDS Integers, Sequences, FiniteSets, TLC

VARIABLES
    env,        \* DISCORD_WEBHOOK_URL, DISCORD_LOG_WEBHOOK_URL, DISCORD_USER_ID, YOUTUBE_API_KEY: set or not
    disk,       \* cache.json
    cache,      \* SocialMonitor.cache
    pc,         \* position of the process
    ytNewest,   \* newest video of the channel (0: none)
    igNewest,   \* newest post of the profile (0: none)
    results,    \* run_all_checks: results
    errors,     \* run_all_checks: errors
    calls,      \* calls of send_discord_webhook in this run, in order
    api,        \* YouTube API calls of this run, in order
    reqLog,     \* outcomes of the GET attempts of the latest _make_request call
    fetches,    \* targets of the _make_request calls of this run, in order
    strat,      \* outcome of each Instagram extraction strategy in this run
    trace,      \* orchestration events of this run, in order
    ret,        \* how each checker call of this run ended: the value returned, or the error raised
    extracted,  \* item id each checker extracted in this run
    startCache, \* the cache as loaded when this run started
    runs,       \* number of runs started
    announced,  \* <<source, item>> announced with success in an earlier, persisted run
    text,       \* card rendering: the description or caption given
    card        \* card rendering: the embed description produced

vars == <<env, disk, cache, pc, ytNewest, igNewest, results, errors, calls, api,
          reqLog, fetches, strat, trace, ret, extracted, startCache, runs,
          announced, text, card>>

worldVars == <<ytNewest, igNewest>>
cardVars == <<text, card>>

----------------------------------------------------------------------------
(* Bounds *)

MaxItems == 2
MaxRuns == 2
MaxTextLen == 303

----------------------------------------------------------------------------
(* Python values *)

\* a dict is a function on the keys it holds
EmptyDict == <<>>
DictGet(d, k, default) == IF k \in DOMAIN d THEN d[k] ELSE default
DictSet(d, k, v) == (k :> v) @@ d

\* None, as what cache.get returns for a missing key; never equal to an id
NoId == <<"none", 0>>
\* the empty string that post_data.get('shortcode', '') defaults to
EmptyId == <<"empty", 0>>

VideoId(v) == <<"videoId", v>>
\* the two identifiers of one Instagram post: the shortcode of the JSON node
\* and of /p/<shortcode>/ links, and the numeric id of the mirror's /media/<id>
Shortcode(p) == <<"shortcode", p>>
MediaId(p) == <<"media", p>>

YoutubeKey == "youtube_last_video"
InstagramKey == "instagram_last_post"

Platforms == <<"YouTube", "Instagram">>
KeyOf(name) == IF name = "YouTube" THEN YoutubeKey ELSE InstagramKey

Envs == [webhook: BOOLEAN, logWebhook: BOOLEAN, userId: BOOLEAN, apiKey: BOOLEAN]

\* no process, no environment
NoEnv == [webhook |-> FALSE, logWebhook |-> FALSE, userId |-> FALSE, apiKey |-> FALSE]

----------------------------------------------------------------------------
(* Cache Store *)

NoFile == [exists |-> FALSE, data |-> EmptyDict]

load_cache(d) == IF d.exists THEN d.data ELSE EmptyDict

save_cache(c) == [exists |-> TRUE, data |-> c]

----------------------------------------------------------------------------
(* Notifier *)

PostOutcomes == {"ok", "http_error", "transport_error"}

WebhookUrlSet(e, log) == IF log THEN e.logWebhook ELSE e.webhook

\* send_discord_webhook without the `if not webhook_url` return
send_discord_webhook_unguarded(e, what, log, mention, outcome) ==
    [ chan      |-> IF log THEN "log" ELSE "primary",
      what      |-> what,
      mention   |-> mention,
      mentioned |-> mention /\ e.userId,
      posted    |-> TRUE,
      ok        |-> outcome = "ok" ]

\* One call of send_discord_webhook: the record of what it did.
\*   posted: requests.post was issued; ok: the value returned.
send_discord_webhook(e, what, log, mention, outcome) ==
    LET urlSet == WebhookUrlSet(e, log) IN
    [ chan      |-> IF log THEN "log" ELSE "primary",
      what      |-> what,
      mention   |-> mention,
      mentioned |-> urlSet /\ mention /\ e.userId,
      posted    |-> urlSet,
      ok        |-> urlSet /\ outcome = "ok" ]

Announcement(source, item, id) == [kind |-> "announce", source |-> source, item |-> item, id |-> id]

----------------------------------------------------------------------------
(* Shared by the checkers *)

\* the comparison never succeeding
CacheHitNever(c, key, id) == FALSE

\* self.cache.get(cache_key) == id
CacheHit(c, key, id) == DictGet(c, key, NoId) = id

\* the entry written whatever the notifier returned
UpdateCacheAlways(c, key, id, sent) == DictSet(c, key, id)

\* if self.send_discord_webhook(...): self.cache[cache_key] = id
UpdateCache(c, key, id, sent) == IF sent THEN DictSet(c, key, id) ELSE c

----------------------------------------------------------------------------
(* Run Orchestrator: the loop over platforms *)

StatusOf(result) == IF result THEN "success" ELSE "no new content"

\* the loop left after its first platform
AfterCheckerBreaks(name) == "save"

\* the position after the checker of platform `name`
AfterChecker(name) == IF name = "YouTube" THEN "ig" ELSE "save"

\* check_func() returned `result`: results[platform_name] = ...; next platform
CheckerReturns(name, result) ==
    /\ results' = DictSet(results, name, StatusOf(result))
    /\ ret' = DictSet(ret, name, [raised |-> FALSE, value |-> result])
    /\ pc' = AfterChecker(name)
    /\ UNCHANGED errors

----------------------------------------------------------------------------
(* Process start and the world *)

NoStrategies == [json |-> "not_invoked", html |-> "not_invoked", mirror |-> "not_invoked"]

NoCard == [rendered |-> FALSE, kind |-> "none", description |-> <<>>]

Init ==
    /\ env = NoEnv
    /\ disk = NoFile
    /\ cache = EmptyDict
    /\ pc = "idle"
    /\ ytNewest = 0
    /\ igNewest = 0
    /\ results = EmptyDict
    /\ errors = EmptyDict
    /\ calls = <<>>
    /\ api = <<>>
    /\ reqLog = <<>>
    /\ fetches = <<>>
    /\ strat = NoStrategies
    /\ trace = <<>>
    /\ ret = EmptyDict
    /\ extracted = EmptyDict
    /\ startCache = EmptyDict
    /\ runs = 0
    /\ announced = {}
    /\ text = <<>>
    /\ card = NoCard

\* the announcements of the run that just ended which the notifier accepted
Delivered(cs) ==
    { <<cs[i].what.source, cs[i].what.item>> :
        i \in { j \in 1..Len(cs) : cs[j].what.kind = "announce" /\ cs[j].ok } }

\* A source publishes a new item (between runs).
Publish ==
    /\ pc = "idle"
    /\ \/ ytNewest < MaxItems /\ ytNewest' = ytNewest + 1 /\ UNCHANGED igNewest
       \/ igNewest < MaxItems /\ igNewest' = igNewest + 1 /\ UNCHANGED ytNewest
    /\ UNCHANGED <<env, disk, cache, pc, results, errors, calls, api, reqLog, fetches,
                   strat, trace, ret, extracted, startCache, runs, announced, text, card>>

\* python main.py: the environment is read, SocialMonitor() loads the cache,
\* run_all_checks starts with empty results and errors.
StartProcess ==
    /\ pc = "idle"
    /\ runs < MaxRuns
    /\ env' \in Envs
    /\ cache' = load_cache(disk)
    /\ startCache' = load_cache(disk)
    /\ runs' = runs + 1
    /\ pc' = "yt"
    /\ UNCHANGED <<disk, worldVars, results, errors, calls, api, reqLog, fetches, strat,
                   trace, ret, extracted, announced, cardVars>>

\* run_all_checks has returned: the process ends and its memory is gone; what
\* it delivered joins the history
Exit ==
    /\ pc = "done"
    /\ announced' = announced \cup Delivered(calls)
    /\ env' = NoEnv
    /\ cache' = EmptyDict
    /\ startCache' = EmptyDict
    /\ results' = EmptyDict
    /\ errors' = EmptyDict
    /\ calls' = <<>>
    /\ api' = <<>>
    /\ fetches' = <<>>
    /\ strat' = NoStrategies
    /\ trace' = <<>>
    /\ ret' = EmptyDict
    /\ extracted' = EmptyDict
    /\ pc' = "idle"
    /\ UNCHANGED <<disk, worldVars, reqLog, runs, cardVars>>

----------------------------------------------------------------------------
(* Source Checker: YouTube *)

\* check_youtube up to the cache comparison: the credential, the client,
\* search().list().execute(), the newest video id against the cache.
CheckYoutube ==
    /\ pc = "yt"
    /\ trace' = Append(trace, "YouTube")
    /\ \/ /\ ~env.apiKey
          /\ CheckerReturns("YouTube", FALSE)
          /\ UNCHANGED <<api, extracted>>
       \/ /\ env.apiKey
          /\ api' = Append(api, "search")
          /\ \E r \in {"raise", "empty", "items"} :
               CASE r = "raise" -> CheckerReturns("YouTube", FALSE) /\ UNCHANGED extracted
                 [] r = "empty" -> CheckerReturns("YouTube", FALSE) /\ UNCHANGED extracted
                 [] r = "items" ->
                      /\ ytNewest > 0
                      /\ extracted' = DictSet(extracted, "YouTube", VideoId(ytNewest))
                      /\ IF CacheHit(cache, YoutubeKey, VideoId(ytNewest))
                           THEN CheckerReturns("YouTube", FALSE)
                           ELSE pc' = "yt_details" /\ UNCHANGED <<results, errors, ret>>
    /\ UNCHANGED <<env, disk, cache, worldVars, calls, reqLog, fetches, strat,
                   startCache, runs, announced, cardVars>>

\* check_youtube from videos().list().execute() on: the card, the notifier,
\* the cache entry.
YoutubeDetails ==
    /\ pc = "yt_details"
    /\ api' = Append(api, "details")
    /\ \E r \in {"raise", "empty", "ok"} :
         IF r = "ok"
           THEN \E o \in PostOutcomes :
                  LET id == extracted["YouTube"]
                      call == send_discord_webhook(env, Announcement("YouTube", ytNewest, id),
                                                   FALSE, FALSE, o)
                  IN /\ calls' = Append(calls, call)
                     /\ cache' = UpdateCache(cache, YoutubeKey, id, call.ok)
                     /\ CheckerReturns("YouTube", call.ok)
           ELSE /\ CheckerReturns("YouTube", FALSE)
                /\ UNCHANGED <<calls, cache>>
    /\ UNCHANGED <<env, disk, worldVars, reqLog, fetches, strat, trace, extracted,
                   startCache, runs, announced, cardVars>>

----------------------------------------------------------------------------
(* HTTP Fetcher *)

MaxAttempts == 3

\* what one requests.get + raise_for_status can do: return a response with
\* status 200, return one with another status below 400, or raise HTTPError
\* (status 4xx/5xx), ConnectionError or Timeout
GetOutcomes == {"200", "2xx", "http_error", "connection_error", "timeout"}

GetReturns(o) == o \in {"200", "2xx"}

\* retry_if_exception_type((requests.RequestException, requests.Timeout)):
\* HTTPError, ConnectionError and Timeout are all RequestException
Retried(o) == o \in {"http_error", "connection_error", "timeout"}

\* after the attempts of log, tenacity makes another attempt
Continues(log) ==
    /\ log # <<>>
    /\ ~GetReturns(log[Len(log)])
    /\ Retried(log[Len(log)])
    /\ Len(log) < MaxAttempts

\* the call returned a response (else it raised)
Returned(log) == log # <<>> /\ GetReturns(log[Len(log)])

Status(log) == log[Len(log)]

\* the attempt outcomes of one whole call of _make_request
IsCompleteLog(log) ==
    /\ \A i \in 1..(Len(log) - 1) : Continues(SubSeq(log, 1, i))
    /\ ~Continues(log)

CompleteLogs ==
    UNION { { log \in [1..n -> GetOutcomes] : IsCompleteLog(log) } : n \in 1..MaxAttempts }

\* what a whole call gives its caller: a response (its status), or an exception
make_request(log) == IF Returned(log) THEN Status(log) ELSE "raised"

CallResults == { make_request(log) : log \in CompleteLogs }

Targets == {"json", "html", "rss"}

\* _make_request: one GET attempt; the call then returns, retries or raises
MakeRequest ==
    /\ pc = "request"
    /\ \E o \in GetOutcomes :
         /\ reqLog' = Append(reqLog, o)
         /\ pc' = IF Continues(reqLog') THEN "request"
                  ELSE IF GetReturns(o) THEN "returned" ELSE "raised"
    /\ UNCHANGED <<env, disk, cache, worldVars, results, errors, calls, api, fetches,
                   strat, trace, ret, extracted, startCache, runs, announced, cardVars>>

----------------------------------------------------------------------------
(* Source Checker: Instagram *)

\* `if result: return result`
DefinitiveIfTruthy(r) == r = "True"

\* check_instagram: `if result is not None: return result`
Definitive(r) == r # "None"

\* a method of check_instagram's list returned r ("True", "False", "None")
MethodReturns(method, r) ==
    IF Definitive(r)
      THEN CheckerReturns("Instagram", r = "True")
      ELSE IF method = "web"
             THEN pc' = "ig_rss" /\ UNCHANGED <<results, errors, ret>>
             ELSE CheckerReturns("Instagram", FALSE)

\* _process_instagram_post on a node whose shortcode is id (EmptyId: none):
\* the calls it makes, the cache it leaves, the value it returns
process_instagram_post(e, c, item, id, o) ==
    IF id = EmptyId \/ CacheHit(c, InstagramKey, id)
      THEN [sent |-> <<>>, cache |-> c, result |-> "False"]
      ELSE LET call == send_discord_webhook(e, Announcement("Instagram", item, id),
                                            FALSE, FALSE, o)
           IN [sent |-> <<call>>,
               cache |-> UpdateCache(c, InstagramKey, id, call.ok),
               result |-> IF call.ok THEN "True" ELSE "False"]

\* the part of _check_instagram_rss after the id is matched
process_mirror_post(e, c, item, id, o) ==
    IF CacheHit(c, InstagramKey, id)
      THEN [sent |-> <<>>, cache |-> c, result |-> "False"]
      ELSE LET call == send_discord_webhook(e, Announcement("Instagram", item, id),
                                            FALSE, FALSE, o)
           IN [sent |-> <<call>>,
               cache |-> UpdateCache(c, InstagramKey, id, call.ok),
               result |-> IF call.ok THEN "True" ELSE "None"]

StrategyOutcome(r) == IF r = "None" THEN "inconclusive" ELSE r

\* the shortcode a node or a /p/ link can carry: none, or the newest post's
NodeIds == {EmptyId} \cup { Shortcode(p) : p \in {igNewest} \ {0} }

\* a strategy handed a node to _process_instagram_post
ProcessPost(strategy, method, id, o) ==
    LET r == process_instagram_post(env, cache, igNewest, id, o) IN
    /\ calls' = calls \o r.sent
    /\ cache' = r.cache
    /\ extracted' = IF id = EmptyId THEN extracted ELSE DictSet(extracted, "Instagram", id)
    /\ strat' = [strat EXCEPT ![strategy] = StrategyOutcome(r.result)]
    /\ MethodReturns(method, r.result)

\* check_instagram is entered; its first method, _check_instagram_web, sleeps,
\* requests the JSON endpoint and processes the response: lines 162-200
InstagramJson ==
    /\ pc = "ig"
    /\ trace' = Append(trace, "Instagram")
    /\ fetches' = Append(fetches, "json")
    /\ \E resp \in CallResults :
         \/ \* the request raised: caught, the profile page is next
            /\ resp = "raised"
            /\ strat' = [strat EXCEPT !.json = "raised"]
            /\ pc' = "ig_html"
            /\ UNCHANGED <<results, errors, ret, calls, cache, extracted>>
         \/ \* a status other than 200: the profile page is next
            /\ resp \notin {"raised", "200"}
            /\ strat' = [strat EXCEPT !.json = "not_200"]
            /\ pc' = "ig_html"
            /\ UNCHANGED <<results, errors, ret, calls, cache, extracted>>
         \/ \* response.json() raises: caught, the profile page is next
            /\ resp = "200"
            /\ strat' = [strat EXCEPT !.json = "raised"]
            /\ pc' = "ig_html"
            /\ UNCHANGED <<results, errors, ret, calls, cache, extracted>>
         \/ \* _process_instagram_json: no user data, no posts, or it raises inside
            /\ resp = "200"
            /\ strat' = [strat EXCEPT !.json = "inconclusive"]
            /\ MethodReturns("web", "None")
            /\ UNCHANGED <<calls, cache, extracted>>
         \/ \* _process_instagram_json reaches _process_instagram_post
            /\ resp = "200"
            /\ \E id \in NodeIds, o \in PostOutcomes : ProcessPost("json", "web", id, o)
    /\ UNCHANGED <<env, disk, worldVars, api, reqLog, startCache, runs, announced, cardVars>>

\* _check_instagram_web from the profile page request on: lines 202-210
InstagramHtml ==
    /\ pc = "ig_html"
    /\ fetches' = Append(fetches, "html")
    /\ \E resp \in CallResults :
         \/ \* the request raised: caught at the method's boundary, None
            /\ resp = "raised"
            /\ strat' = [strat EXCEPT !.html = "raised"]
            /\ MethodReturns("web", "None")
            /\ UNCHANGED <<calls, cache, extracted>>
         \/ \* _process_instagram_html finds no post (or raises inside)
            /\ resp # "raised"
            /\ strat' = [strat EXCEPT !.html = "inconclusive"]
            /\ MethodReturns("web", "None")
            /\ UNCHANGED <<calls, cache, extracted>>
         \/ \* a node of the embedded script, or the first /p/<shortcode>/ link
            /\ resp # "raised"
            /\ \E id \in NodeIds, o \in PostOutcomes : ProcessPost("html", "web", id, o)
    /\ UNCHANGED <<env, disk, worldVars, api, reqLog, trace, startCache, runs, announced,
                   cardVars>>

\* _check_instagram_rss, the second method of check_instagram: lines 212-264
InstagramRss ==
    /\ pc = "ig_rss"
    /\ fetches' = Append(fetches, "rss")
    /\ \E resp \in CallResults :
         \/ \* the request raised: caught, None
            /\ resp = "raised"
            /\ strat' = [strat EXCEPT !.mirror = "raised"]
            /\ MethodReturns("rss", "None")
            /\ UNCHANGED <<calls, cache, extracted>>
         \/ \* no /media/<id> link in the page (or parsing raises)
            /\ resp # "raised"
            /\ strat' = [strat EXCEPT !.mirror = "inconclusive"]
            /\ MethodReturns("rss", "None")
            /\ UNCHANGED <<calls, cache, extracted>>
         \/ \* the first /media/<id> link
            /\ resp # "raised"
            /\ igNewest > 0
            /\ \E o \in PostOutcomes :
                 LET id == MediaId(igNewest)
                     r == process_mirror_post(env, cache, igNewest, id, o) IN
                 /\ calls' = calls \o r.sent
                 /\ cache' = r.cache
                 /\ extracted' = DictSet(extracted, "Instagram", id)
                 /\ strat' = [strat EXCEPT !.mirror = StrategyOutcome(r.result)]
                 /\ MethodReturns("rss", r.result)
    /\ UNCHANGED <<env, disk, worldVars, api, reqLog, trace, startCache, runs, announced,
                   cardVars>>

----------------------------------------------------------------------------
(* Run Orchestrator: after the loop *)

\* self.save_cache()
SaveCache ==
    /\ pc = "save"
    /\ disk' = save_cache(cache)
    /\ trace' = Append(trace, "save")
    /\ pc' = "summary"
    /\ UNCHANGED <<env, cache, worldVars, results, errors, calls, api, reqLog, fetches,
                   strat, ret, extracted, startCache, runs, announced, cardVars>>

Summary(e, res, errs) == [kind |-> "summary", results |-> res, errors |-> errs, token |-> e.userId]

\* self.send_discord_webhook(summary, log=True); run_all_checks returns
SendSummary ==
    /\ pc = "summary"
    /\ \E o \in PostOutcomes :
         calls' = Append(calls, send_discord_webhook(env, Summary(env, results, errors),
                                                     TRUE, FALSE, o))
    /\ trace' = Append(trace, "summary")
    /\ pc' = "done"
    /\ UNCHANGED <<env, disk, cache, worldVars, results, errors, api, reqLog, fetches,
                   strat, ret, extracted, startCache, runs, announced, cardVars>>

Next ==
    \/ Publish
    \/ StartProcess
    \/ CheckYoutube
    \/ YoutubeDetails
    \/ InstagramJson
    \/ InstagramHtml
    \/ InstagramRss
    \/ SaveCache
    \/ SendSummary
    \/ Exit

Spec == Init /\ [][Next]_vars

----------------------------------------------------------------------------
(* The fetcher alone: one call of _make_request, attempt by attempt *)

InitFetch ==
    /\ env = NoEnv
    /\ disk = NoFile
    /\ cache = EmptyDict
    /\ pc = "request"
    /\ ytNewest = 0
    /\ igNewest = 0
    /\ results = EmptyDict
    /\ errors = EmptyDict
    /\ calls = <<>>
    /\ api = <<>>
    /\ reqLog = <<>>
    /\ \E t \in Targets : fetches = <<t>>
    /\ strat = NoStrategies
    /\ trace = <<>>
    /\ ret = EmptyDict
    /\ extracted = EmptyDict
    /\ startCache = EmptyDict
    /\ runs = 1
    /\ announced = {}
    /\ text = <<>>
    /\ card = NoCard

NextFetch == MakeRequest

SpecFetch == InitFetch /\ [][NextFetch]_vars

----------------------------------------------------------------------------
(* The orchestrator alone: run_all_checks over checkers that may raise *)

ErrorTexts == {"boom", "oops"}

\* what a call check_func() can do: return a boolean, or raise an exception
CheckOutcomes ==
    [raised : {FALSE}, value : BOOLEAN] \cup [raised : {TRUE}, error : ErrorTexts]

ErrorNotice(name, err) == [kind |-> "error", source |-> name, error |-> err]

\* the except branch without its notification
CheckerRaisesSilently(name, err, o) ==
    /\ results' = DictSet(results, name, "failed")
    /\ errors' = DictSet(errors, name, err)
    /\ calls' = calls
    /\ trace' = Append(trace, name)
    /\ pc' = AfterChecker(name)
    /\ ret' = DictSet(ret, name, [raised |-> TRUE, error |-> err])

\* check_func() raised: lines 397-401
CheckerRaises(name, err, o) ==
    /\ results' = DictSet(results, name, "failed")
    /\ errors' = DictSet(errors, name, err)
    /\ calls' = Append(calls, send_discord_webhook(env, ErrorNotice(name, err), TRUE, TRUE, o))
    /\ trace' = trace \o <<name, "error_notice">>
    /\ pc' = AfterChecker(name)
    /\ ret' = DictSet(ret, name, [raised |-> TRUE, error |-> err])

PcOf(name) == IF name = "YouTube" THEN "yt" ELSE "ig"

\* one iteration of the loop of run_all_checks: lines 393-401
OrchCheck ==
    /\ \E i \in 1..Len(Platforms), out \in CheckOutcomes, o \in PostOutcomes :
         LET name == Platforms[i] IN
         /\ pc = PcOf(name)
         /\ IF out.raised
              THEN CheckerRaises(name, out.error, o)
              ELSE /\ CheckerReturns(name, out.value)
                   /\ trace' = Append(trace, name)
                   /\ UNCHANGED calls
    /\ UNCHANGED <<env, disk, cache, worldVars, api, reqLog, fetches, strat, extracted,
                   startCache, runs, announced, cardVars>>

InitOrch ==
    /\ env \in Envs
    /\ disk = NoFile
    /\ cache = EmptyDict
    /\ pc = "yt"
    /\ ytNewest = 0
    /\ igNewest = 0
    /\ results = EmptyDict
    /\ errors = EmptyDict
    /\ calls = <<>>
    /\ api = <<>>
    /\ reqLog = <<>>
    /\ fetches = <<>>
    /\ strat = NoStrategies
    /\ trace = <<>>
    /\ ret = EmptyDict
    /\ extracted = EmptyDict
    /\ startCache = EmptyDict
    /\ runs = 1
    /\ announced = {}
    /\ text = <<>>
    /\ card = NoCard

NextOrch ==
    \/ OrchCheck
    \/ SaveCache
    \/ SendSummary

SpecOrch == InitOrch /\ [][NextOrch]_vars

----------------------------------------------------------------------------
(* The card description alone *)

YoutubeLimit == 200
InstagramLimit == 300

\* strings are sequences of characters
Ellipsis == <<".", ".", ".">>
DefaultCaption ==
    <<"N", "e", "w", " ", "I", "n", "s", "t", "a", "g", "r", "a", "m", " ", "p", "o", "s", "t">>

\* s[:n]
Slice(s, n) == SubSeq(s, 1, IF Len(s) < n THEN Len(s) ELSE n)

\* the comparison off by one: >= for >
youtube_description_ge(description) ==
    IF Len(description) >= YoutubeLimit
      THEN Slice(description, YoutubeLimit) \o Ellipsis
      ELSE description

\* "description": description[:200] + "..." if len(description) > 200 else description
youtube_description(description) ==
    IF Len(description) > YoutubeLimit
      THEN Slice(description, YoutubeLimit) \o Ellipsis
      ELSE description

\* "description": (caption[:300] + "...") if len(caption) > 300 else (caption or "New Instagram post")
instagram_description(caption) ==
    IF Len(caption) > InstagramLimit
      THEN Slice(caption, InstagramLimit) \o Ellipsis
      ELSE IF caption # <<>> THEN caption ELSE DefaultCaption

Alphabet == <<"a", "b", "c", ".">>
Strides == {1, 3}
\* the texts tried: every length up to MaxTextLen, characters varying with the position
MkText(n, stride) == [i \in 1..n |-> Alphabet[((i * stride) % Len(Alphabet)) + 1]]

InitCard ==
    /\ env = NoEnv
    /\ disk = NoFile
    /\ cache = EmptyDict
    /\ pc = "render"
    /\ ytNewest = 0
    /\ igNewest = 0
    /\ results = EmptyDict
    /\ errors = EmptyDict
    /\ calls = <<>>
    /\ api = <<>>
    /\ reqLog = <<>>
    /\ fetches = <<>>
    /\ strat = NoStrategies
    /\ trace = <<>>
    /\ ret = EmptyDict
    /\ extracted = EmptyDict
    /\ startCache = EmptyDict
    /\ runs = 1
    /\ announced = {}
    /\ \E n \in 0..MaxTextLen, stride \in Strides : text = MkText(n, stride)
    /\ \E k \in {"youtube", "instagram"} : card = [NoCard EXCEPT !.kind = k]

\* the embed's "description" entry is built
RenderCard ==
    /\ pc = "render"
    /\ card' = [ rendered |-> TRUE,
                 kind |-> card.kind,
                 description |-> IF card.kind = "youtube"
                                   THEN youtube_description(text)
                                   ELSE instagram_description(text) ]
    /\ pc' = "rendered"
    /\ UNCHANGED <<env, disk, cache, worldVars, results, errors, calls, api, reqLog,
                   fetches, strat, trace, ret, extracted, startCache, runs, announced, text>>

NextCard == RenderCard

SpecCard == InitCard /\ [][NextCard]_vars

----------------------------------------------------------------------------
(* Properties *)

Sources == {"YouTube", "Instagram"}

Entry(c, name) == DictGet(c, KeyOf(name), NoId)

\* the calls of the notifier that announce an item of source `name`
AnnounceCalls(name) ==
    { i \in 1..Len(calls) : calls[i].what.kind = "announce" /\ calls[i].what.source = name }

RunOrder == <<"YouTube", "Instagram", "save", "summary">>

IsPrefix(s, t) == Len(s) <= Len(t) /\ \A i \in 1..Len(s) : s[i] = t[i]

CheckerReturned(name) == name \in DOMAIN ret /\ ~ret[name].raised

\* C1: in every run and for every source, the cache entry is overwritten with
\* the newly extracted id if and only if the checker's notifier call for that
\* item returned success in that run; otherwise (failure, or no call) the
\* entry keeps the value it had when the run started.
C1_CacheUpdatedIffNotified ==
    \A name \in Sources :
      LET accepted == { i \in AnnounceCalls(name) : calls[i].ok } IN
      /\ \A i \in accepted :
           /\ Entry(cache, name) = calls[i].what.id
           /\ Entry(cache, name) # Entry(startCache, name)
      /\ accepted = {} => /\ Entry(cache, name) = Entry(startCache, name)
                          /\ (KeyOf(name) \in DOMAIN cache) = (KeyOf(name) \in DOMAIN startCache)

\* a run in which YouTube's notifier call succeeded (entry overwritten) and
\* Instagram's POST failed (entry kept)
C1_Witness ==
    /\ pc = "done"
    /\ \E i \in AnnounceCalls("YouTube") : calls[i].ok
    /\ Entry(cache, "YouTube") # Entry(startCache, "YouTube")
    /\ \E i \in AnnounceCalls("Instagram") : calls[i].posted /\ ~calls[i].ok
    /\ Entry(cache, "Instagram") = Entry(startCache, "Instagram")

\* C2: once an item has been announced with success and the cache persisted,
\* no later run in which it is still the newest item POSTs an announcement of
\* it to the primary webhook, whichever Instagram strategy yields it.
C2_NoRepeatedAnnouncement ==
    \A name \in Sources :
      \A i \in AnnounceCalls(name) :
        calls[i].posted => <<name, calls[i].what.item>> \notin announced

\* C3: when the id a checker extracts equals the cache entry the previous run
\* left, the checker returns false, calls no notifier, makes no item-detail
\* API call (YouTube) and leaves the entry unchanged.
C3_Idempotent ==
    \A name \in Sources :
      (name \in DOMAIN extracted /\ extracted[name] = Entry(startCache, name)) =>
        /\ CheckerReturned(name) /\ ret[name].value = FALSE
        /\ AnnounceCalls(name) = {}
        /\ name = "YouTube" => api = <<"search">>
        /\ Entry(cache, name) = Entry(startCache, name)

\* a second run in which both checkers extracted the id the first run cached
C3_Witness ==
    /\ runs = 2
    /\ pc = "done"
    /\ \A name \in Sources :
         name \in DOMAIN extracted /\ extracted[name] = Entry(startCache, name)

NonDefinitive(x) == x \in {"raised", "inconclusive", "not_200"}
IsDefinitive(x) == x \in {"True", "False"}
AsBool(x) == x = "True"

\* C4: check_instagram tries structured-data, rendered-page, mirror in that
\* order; its result is that of the first definitive strategy, none after it
\* is invoked, and a strategy that raises or is inconclusive is followed by
\* an attempt of the next one; all inconclusive gives false.
C4_FallbackOrder ==
    CheckerReturned("Instagram") =>
      LET result == ret["Instagram"].value IN
      /\ strat.json # "not_invoked"
      /\ IsDefinitive(strat.json) =>
           /\ result = AsBool(strat.json)
           /\ strat.html = "not_invoked" /\ strat.mirror = "not_invoked"
      /\ NonDefinitive(strat.json) => strat.html # "not_invoked"
      /\ IsDefinitive(strat.html) =>
           /\ result = AsBool(strat.html)
           /\ strat.mirror = "not_invoked"
      /\ NonDefinitive(strat.html) => strat.mirror # "not_invoked"
      /\ IsDefinitive(strat.mirror) => result = AsBool(strat.mirror)
      /\ (\A k \in DOMAIN strat : ~IsDefinitive(strat[k])) => result = FALSE

Transient(o) == o \in {"connection_error", "timeout"}

\* C5: _make_request makes at most 3 GET attempts per call and re-attempts
\* only after a connection error or timeout; a non-2xx status is surfaced as
\* a failure after that single attempt.
C5_RetryOnlyTransient ==
    /\ Len(reqLog) <= MaxAttempts
    /\ \A i \in 1..(Len(reqLog) - 1) : Transient(reqLog[i])
    /\ (reqLog # <<>> /\ reqLog[Len(reqLog)] = "http_error") => pc = "raised"

\* C6: every run invokes the YouTube checker, then the Instagram checker,
\* then persists the cache once, then sends one summary to the log webhook,
\* whatever the checkers did; no per-source failure ends the run earlier.
C6_RunCompletes ==
    /\ IsPrefix(trace, RunOrder)
    /\ pc = "done" =>
         /\ trace = RunOrder
         /\ disk = save_cache(cache)
         /\ { i \in 1..Len(calls) : calls[i].chan = "log" } = {Len(calls)}
         /\ calls[Len(calls)].what.kind = "summary"
         /\ calls[Len(calls)].what.results = results
         /\ calls[Len(calls)].posted = env.logWebhook
    /\ pc = "save" => trace = <<"YouTube", "Instagram">> /\ DOMAIN results = Sources
    /\ pc = "summary" => disk = save_cache(cache)
    /\ pc \notin {"idle", "done"} => ENABLED Next

\* a finished run in which the YouTube API failed and every Instagram
\* strategy raised
C6_Witness ==
    /\ pc = "done"
    /\ env.apiKey /\ api = <<"search">> /\ ret["YouTube"].value = FALSE
    /\ strat = [json |-> "raised", html |-> "raised", mirror |-> "raised"]
    /\ trace = RunOrder

ErrorCalls(name) ==
    { i \in 1..Len(calls) : calls[i].what.kind = "error" /\ calls[i].what.source = name }

Position(name) == CHOOSE i \in 1..Len(trace) : trace[i] = name

\* C7: a checker call that raises is caught: the source is recorded as failed
\* with the error text, one diagnostic notification (log channel, mention)
\* with the source name and the error text is made before the next checker is
\* invoked, and the remaining checkers run; a checker that returns is
\* recorded as success (true) or no-new-content (false).
C7_ErrorsContained ==
    /\ DOMAIN results = DOMAIN ret
    /\ \A name \in DOMAIN ret :
         IF ret[name].raised
           THEN /\ results[name] = "failed"
                /\ name \in DOMAIN errors /\ errors[name] = ret[name].error
                /\ \E i \in 1..Len(calls) :
                     /\ ErrorCalls(name) = {i}
                     /\ calls[i].what.error = ret[name].error
                     /\ calls[i].chan = "log"
                     /\ calls[i].mention
                     /\ calls[i].posted = env.logWebhook
                /\ trace[Position(name) + 1] = "error_notice"
           ELSE /\ results[name] = (IF ret[name].value THEN "success" ELSE "no new content")
                /\ name \notin DOMAIN errors
                /\ ErrorCalls(name) = {}
    /\ pc \in {"save", "summary", "done"} => DOMAIN ret = Sources
    /\ "Instagram" \in DOMAIN ret => Position("YouTube") < Position("Instagram")

\* the YouTube checker raised, its notice was POSTed, and the Instagram
\* checker then ran and returned true
C7_Witness ==
    /\ pc = "done"
    /\ "YouTube" \in DOMAIN ret /\ ret["YouTube"].raised
    /\ \E i \in ErrorCalls("YouTube") : calls[i].posted
    /\ "Instagram" \in DOMAIN ret /\ ~ret["Instagram"].raised /\ ret["Instagram"].value

\* C8: with no YouTube API credential, check_youtube returns false with no API
\* request, no notifier call and an unchanged cache entry; with the resolved
\* webhook URL unset, send_discord_webhook returns failure without a POST.
C8_MissingConfig ==
    /\ (~env.apiKey /\ "YouTube" \in DOMAIN ret) =>
         /\ CheckerReturned("YouTube") /\ ret["YouTube"].value = FALSE
         /\ api = <<>>
         /\ AnnounceCalls("YouTube") = {}
         /\ Entry(cache, "YouTube") = Entry(startCache, "YouTube")
    /\ \A i \in 1..Len(calls) :
         ~(IF calls[i].chan = "log" THEN env.logWebhook ELSE env.webhook) =>
           ~calls[i].posted /\ ~calls[i].ok

\* a finished run without credential and without webhooks, in which the
\* Instagram checker called the notifier
C8_Witness ==
    /\ pc = "done"
    /\ ~env.apiKey /\ ~env.webhook /\ ~env.logWebhook
    /\ AnnounceCalls("Instagram") # {}
    /\ Len(calls) = 2

\* description is text cut to its first n characters followed by "..."
IsTruncation(description, t, n) ==
    /\ Len(description) = n + 3
    /\ \A i \in 1..n : description[i] = t[i]
    /\ \A i \in (n + 1)..(n + 3) : description[i] = "."

LimitOf(kind) == IF kind = "youtube" THEN YoutubeLimit ELSE InstagramLimit

\* C9 as stated: longer than the limit (300 Instagram, 200 YouTube) renders
\* as the first limit characters plus the ellipsis; at or under the limit the
\* string appears unmodified.
C9_TruncationAsStated ==
    card.rendered =>
      IF Len(text) > LimitOf(card.kind)
        THEN IsTruncation(card.description, text, LimitOf(card.kind))
        ELSE card.description = text

\* C9 amended: as stated, except that an empty Instagram caption renders as
\* the default text "New Instagram post".
C9_Truncation ==
    card.rendered =>
      IF Len(text) > LimitOf(card.kind)
        THEN IsTruncation(card.description, text, LimitOf(card.kind))
        ELSE IF card.kind = "instagram" /\ Len(text) = 0
               THEN card.description = DefaultCaption
               ELSE card.description = text

\* a YouTube description of exactly the limit, rendered
C9_Witness ==
    /\ card.rendered
    /\ card.kind = "youtube"
    /\ Len(text) = YoutubeLimit

\* C10: within one run at most one announcement per source is POSTed to the
\* primary webhook, and the mirror strategy is not invoked after the web
\* method attempted an announcement.
C10_AtMostOneAnnouncement ==
    /\ \A name \in Sources :
         Cardinality({ i \in AnnounceCalls(name) : calls[i].posted }) <= 1
    /\ (\E i \in AnnounceCalls("Instagram") : calls[i].what.id[1] = "shortcode") =>
         /\ strat.mirror = "not_invoked"
         /\ "rss" \notin { fetches[j] : j \in 1..Len(fetches) }

\* a finished run in which the web method's POST was refused and the checker
\* stopped there
C10_Witness ==
    /\ pc = "done"
    /\ strat.json = "raised"
    /\ strat.html = "False"
    /\ \E i \in AnnounceCalls("Instagram") : calls[i].posted /\ ~calls[i].ok
    /\ strat.mirror = "not_invoked"

====
